---- MODULE Spec2Model ----
(***************************************************************************)
(* Model of src/cinema4d/redshift_cli_render.py: the Configuration Model   *)
(* (RenderConfig), the Command Builder (build_command), the Process Runner *)
(* (run_command_async and its worker thread) and the App event handlers.   *)
(*                                                                         *)
(* Text that the code inspects character by character (strip, shlex.split, *)
(* os.path.join, quoting) is a sequence of atoms.  An atom is one special  *)
(* character (blank, tab, quote, apostrophe, backslash, slash) or a run of *)
(* ordinary characters, none of which is special.  Text that the code only *)
(* passes along (log lines, message titles) is a plain string.             *)
(***************************************************************************)
EXTENDS Integers, Sequences, FiniteSets, TLC

VARIABLES
    platform,     \* sys.platform
    fs_exes,      \* paths of the executables that exist on this machine
    fs_dirs,      \* the output directories that exist
    disk,         \* the preset files, by path
    ui,           \* the values of the Tk variables behind the form fields
    cfg,          \* App.cfg, the RenderConfig
    built,        \* cmd, pretty of the handler that is blocked in a message box
    cmd_preview,  \* the text of the command preview
    log,          \* the text chunks inserted into the log view
    run_btn,      \* the state of the run control
    runs,         \* one record per worker thread started by run_command_async
    dialog,       \* the message box that is showing, and the handler it blocks
    forms         \* what the user types into the form in this session

envVars == <<platform, fs_exes>>

appVars == <<fs_dirs, disk, ui, cmd_preview, log, run_btn, runs, dialog, forms>>

vars == <<platform, fs_exes, fs_dirs, disk, ui, cfg, built, cmd_preview, log,
          run_btn, runs, dialog, forms>>

(***************************************************************************)
(* Bounds and program constants                                            *)
(***************************************************************************)
\* Floats are binary fractions n / FloatDen, which float arithmetic keeps exact.
FloatDen == 4

\* The number of Run actions one behaviour may take
MaxRuns == 2

\* The number of lines the external process may write
MaxLines == 2

DEFAULT_FPS == 25

DEFAULT_FORMAT == <<"png">>

Platforms == {"win32", "darwin", "linux"}

\* sys.platform.startswith("win")
IsWin(p) == p = "win32"

(***************************************************************************)
(* Text helpers                                                            *)
(***************************************************************************)
Whitespace == {" ", "\t", "\n"}

Quotes == {"\"", "'"}

Escape == {"\\"}

\* str(int(n)) : one run of digits, with a sign
IntStr(n) == <<ToString(n)>>

RECURSIVE LStrip(_)
LStrip(s) ==
    IF s = <<>> THEN s
    ELSE IF Head(s) \in Whitespace THEN LStrip(Tail(s)) ELSE s

RECURSIVE RStrip(_)
RStrip(s) ==
    IF s = <<>> THEN s
    ELSE IF s[Len(s)] \in Whitespace THEN RStrip(SubSeq(s, 1, Len(s) - 1)) ELSE s

\* str.strip()
strip(s) == RStrip(LStrip(s))

\* sep.join(parts)
RECURSIVE StrJoin(_, _)
StrJoin(sep, parts) ==
    IF parts = <<>> THEN <<>>
    ELSE IF Len(parts) = 1 THEN parts[1]
    ELSE parts[1] \o sep \o StrJoin(sep, Tail(parts))

\* s.replace("'", "'\"'\"'")
RECURSIVE ReplaceApostrophes(_)
ReplaceApostrophes(s) ==
    IF s = <<>> THEN <<>>
    ELSE (IF Head(s) = "'" THEN <<"'", "\"", "'", "\"", "'">> ELSE <<Head(s)>>)
         \o ReplaceApostrophes(Tail(s))

\* shlex.quote: the characters outside [A-Za-z0-9_@%+=:,./-] are unsafe
shlex_quote(s) ==
    IF s = <<>> THEN <<"'", "'">>
    ELSE IF \A i \in 1..Len(s) : s[i] \notin (Whitespace \cup Quotes \cup Escape) THEN s
    ELSE <<"'">> \o ReplaceApostrophes(s) \o <<"'">>

quote_win(s) ==
    IF \E i \in 1..Len(s) : s[i] \in Whitespace \/ s[i] = "\\"
    THEN <<"\"">> \o s \o <<"\"">>
    ELSE s

\* shlex.shlex.read_token, repeated until the end of the text, with
\* whitespace_split = True and no commenters (shlex.split's settings).
\* state: " " between tokens, "a" in a word, a quote character inside
\* quotes, the escape character after a backslash.
RECURSIVE ShlexScan(_, _, _, _, _, _, _, _)
ShlexScan(s, i, state, escapedstate, token, quoted, posix, out) ==
    LET eof == i > Len(s)
        c == s[i]
        emits == token # <<>> \/ (posix /\ quoted)
        emitted == IF emits THEN Append(out, token) ELSE out
        done == [ok |-> TRUE, err |-> "", toks |-> emitted]
        fail(msg) == [ok |-> FALSE, err |-> msg, toks |-> <<>>]
        \* break: the token is returned and the next read_token starts
        next(st) == ShlexScan(s, i + 1, st, " ", <<>>, FALSE, posix, emitted)
        go(st, esc, tok, q) == ShlexScan(s, i + 1, st, esc, tok, q, posix, out)
    IN  IF state = " " THEN
            IF eof THEN done
            ELSE IF c \in Whitespace THEN
                IF emits THEN next(" ") ELSE go(" ", escapedstate, token, quoted)
            ELSE IF posix /\ c \in Escape THEN go(c, "a", token, quoted)
            ELSE IF c \in Quotes THEN
                go(c, escapedstate, IF posix THEN token ELSE <<c>>, quoted)
            ELSE go("a", escapedstate, <<c>>, quoted)
        ELSE IF state \in Quotes THEN
            IF eof THEN fail("No closing quotation")
            ELSE IF c = state THEN
                IF posix THEN go("a", escapedstate, token, TRUE)
                ELSE ShlexScan(s, i + 1, " ", " ", <<>>, FALSE, posix,
                               Append(out, Append(token, c)))
            ELSE IF posix /\ c \in Escape /\ state = "\"" THEN
                go(c, state, token, TRUE)
            ELSE go(state, escapedstate, Append(token, c), TRUE)
        ELSE IF state \in Escape THEN
            IF eof THEN fail("No escaped character")
            ELSE IF escapedstate \in Quotes /\ c # state /\ c # escapedstate
                THEN go(escapedstate, escapedstate, token \o <<state, c>>, quoted)
                ELSE go(escapedstate, escapedstate, Append(token, c), quoted)
        ELSE \* state = "a"
            IF eof THEN done
            ELSE IF c \in Whitespace THEN
                IF emits THEN next(" ") ELSE go(" ", escapedstate, token, quoted)
            ELSE IF posix /\ c \in Quotes THEN go(c, escapedstate, token, quoted)
            ELSE IF posix /\ c \in Escape THEN go(c, "a", token, quoted)
            ELSE go("a", escapedstate, Append(token, c), quoted)

\* shlex.split(s, posix=posix)
shlex_split(s, posix) == ShlexScan(s, 1, " ", " ", <<>>, FALSE, posix, <<>>)

\* os.path.join(a, b) for paths without a drive letter: posixpath.join on
\* POSIX, ntpath.join on Windows.
os_path_join(p, a, b) ==
    LET seps == IF IsWin(p) THEN {"/", "\\"} ELSE {"/"}
        sep == IF IsWin(p) THEN "\\" ELSE "/"
    IN  IF b # <<>> /\ Head(b) \in seps THEN b
        ELSE IF a = <<>> \/ a[Len(a)] \in seps THEN a \o b
        ELSE a \o <<sep>> \o b

(***************************************************************************)
(* RenderConfig                                                            *)
(***************************************************************************)
WinCandidate(ver) ==
    <<"C:", "\\", "Program", " ", "Files", "\\", "Maxon", " ", "Cinema", " ",
      "4D", " ", ver, "\\", "Commandline.exe">>

MacCandidate(ver) ==
    <<"/", "Applications", "/", "Maxon", " ", "Cinema", " ", "4D", " ", ver, "/",
      "Commandline.app", "/", "Contents", "/", "MacOS", "/", "Commandline">>

Candidates(p) ==
    IF IsWin(p) THEN <<WinCandidate("2025"), WinCandidate("2024"), WinCandidate("R26")>>
    ELSE IF p = "darwin"
        THEN <<MacCandidate("2025"), MacCandidate("2024"), MacCandidate("R26")>>
        ELSE <<>>

\* The first candidate that exists, else the empty string.
guess_c4d_command(p, exes) ==
    LET cands == Candidates(p)
        found == {i \in 1..Len(cands) : cands[i] \in exes}
    IN  IF found = {} THEN <<>>
        ELSE cands[CHOOSE i \in found : \A j \in found : i <= j]

\* RenderConfig.__init__ ; duration_seconds counts 1/FloatDen seconds.
RenderConfig(p, exes) ==
    [c4d_cmd          |-> guess_c4d_command(p, exes),
     scene_path       |-> <<>>,
     output_dir       |-> <<>>,
     base_name        |-> <<"frame_">>,
     format           |-> DEFAULT_FORMAT,
     override_format  |-> TRUE,
     override_res     |-> FALSE,
     res_w            |-> 1920,
     res_h            |-> 1080,
     use_duration     |-> TRUE,
     duration_seconds |-> 15 * FloatDen,
     fps              |-> DEFAULT_FPS,
     start_frame      |-> 0,
     end_frame        |-> 100,
     renderer         |-> <<"Redshift">>,
     force_renderer   |-> TRUE,
     threads          |-> 0,
     extra_args       |-> <<>>]

\* RenderConfig.to_dict : a copy of the instance dictionary
to_dict(c) == [k \in DOMAIN c |-> c[k]]

\* RenderConfig.from_dict : a fresh RenderConfig, its dictionary updated by d
from_dict(d, p, exes) ==
    LET fresh == RenderConfig(p, exes)
    IN  [k \in DOMAIN fresh \cup DOMAIN d |-> IF k \in DOMAIN d THEN d[k] ELSE fresh[k]]

(***************************************************************************)
(* build_command                                                           *)
(***************************************************************************)
\* int(round(num / den)) : Python rounds a tie to the even neighbour
PyRound(num, den) ==
    LET q == num \div den
        r == num % den
    IN  IF 2 * r < den THEN q
        ELSE IF 2 * r > den THEN q + 1
        ELSE IF q % 2 = 0 THEN q ELSE q + 1

ExeTokens(c) == IF c.c4d_cmd # <<>> THEN <<c.c4d_cmd>> ELSE <<>>

RendererTokens(c) ==
    IF c.force_renderer /\ c.renderer # <<>>
    THEN << <<"-renderer">>, c.renderer >> ELSE <<>>

SceneTokens(c) == << <<"-render">>, c.scene_path >>

OImageTokens(p, c) ==
    LET base == IF c.base_name # <<>> THEN c.base_name ELSE <<"frame_">>
    IN  << <<"-oimage">>, os_path_join(p, c.output_dir, base) >>

FormatTokens(c) ==
    IF c.override_format /\ c.format # <<>>
    THEN << <<"-ofmt">>, c.format >> ELSE <<>>

ResTokens(c) ==
    IF c.override_res
    THEN << <<"-ores">>, IntStr(c.res_w), IntStr(c.res_h) >> ELSE <<>>

\* Mutant: the product is truncated, not rounded.
FrameTokens_truncated(c) ==
    IF c.use_duration THEN
        [ok |-> TRUE, err |-> "",
         toks |-> << <<"-frame">>, IntStr(0),
                     IntStr((c.duration_seconds * c.fps) \div FloatDen) >>]
    ELSE IF c.end_frame < c.start_frame THEN
        [ok |-> FALSE, err |-> "End frame must be >= start frame.", toks |-> <<>>]
    ELSE
        [ok |-> TRUE, err |-> "",
         toks |-> << <<"-frame">>, IntStr(c.start_frame), IntStr(c.end_frame) >>]

\* Mutant: a range of one frame is rejected.
FrameTokens_strict(c) ==
    IF c.use_duration THEN
        [ok |-> TRUE, err |-> "",
         toks |-> << <<"-frame">>, IntStr(0),
                     IntStr(PyRound(c.duration_seconds * c.fps, FloatDen)) >>]
    ELSE IF c.end_frame <= c.start_frame THEN
        [ok |-> FALSE, err |-> "End frame must be >= start frame.", toks |-> <<>>]
    ELSE
        [ok |-> TRUE, err |-> "",
         toks |-> << <<"-frame">>, IntStr(c.start_frame), IntStr(c.end_frame) >>]

FrameTokens(c) ==
    IF c.use_duration THEN
        LET total_frames == PyRound(c.duration_seconds * c.fps, FloatDen)
        IN  [ok |-> TRUE, err |-> "",
             toks |-> << <<"-frame">>, IntStr(0), IntStr(total_frames) >>]
    ELSE IF c.end_frame < c.start_frame THEN
        [ok |-> FALSE, err |-> "End frame must be >= start frame.", toks |-> <<>>]
    ELSE
        [ok |-> TRUE, err |-> "",
         toks |-> << <<"-frame">>, IntStr(c.start_frame), IntStr(c.end_frame) >>]

ThreadTokens(c) == << <<"-threads">>, IntStr(c.threads) >>

ExtraTokens(p, c) ==
    IF strip(c.extra_args) # <<>>
    THEN shlex_split(c.extra_args, ~IsWin(p))
    ELSE [ok |-> TRUE, err |-> "", toks |-> <<>>]

\* The display string of a token list
Pretty(p, cmd) ==
    StrJoin(<<" ">>,
            [i \in 1..Len(cmd) |-> IF IsWin(p) THEN quote_win(cmd[i]) ELSE shlex_quote(cmd[i])])

\* Mutant: the resolution override is appended before the format override.
TokenGroups_swapped(p, c) ==
    <<ExeTokens(c), RendererTokens(c), SceneTokens(c), OImageTokens(p, c),
      ResTokens(c), FormatTokens(c), FrameTokens(c).toks, ThreadTokens(c),
      ExtraTokens(p, c).toks>>

\* The token groups of a valid configuration, in the order the code appends them
TokenGroups(p, c) ==
    <<ExeTokens(c), RendererTokens(c), SceneTokens(c), OImageTokens(p, c),
      FormatTokens(c), ResTokens(c), FrameTokens(c).toks, ThreadTokens(c),
      ExtraTokens(p, c).toks>>

RECURSIVE Flatten(_)
Flatten(groups) ==
    IF groups = <<>> THEN <<>> ELSE Head(groups) \o Flatten(Tail(groups))

Raised(msg) == [called |-> TRUE, ok |-> FALSE, err |-> msg, cmd |-> <<>>, pretty |-> <<>>]

\* Mutant: the output directory is not validated.
build_command_nooutdir(p, c) ==
    IF c.scene_path = <<>> THEN Raised("Scene path is required.")
    ELSE IF ~FrameTokens(c).ok THEN Raised(FrameTokens(c).err)
    ELSE IF ~ExtraTokens(p, c).ok THEN Raised(ExtraTokens(p, c).err)
    ELSE LET cmd == Flatten(TokenGroups(p, c))
         IN  [called |-> TRUE, ok |-> TRUE, err |-> "", cmd |-> cmd,
              pretty |-> Pretty(p, cmd)]

build_command(p, c) ==
    IF c.scene_path = <<>> THEN Raised("Scene path is required.")
    ELSE IF c.output_dir = <<>> THEN Raised("Output directory is required.")
    ELSE IF ~FrameTokens(c).ok THEN Raised(FrameTokens(c).err)
    ELSE IF ~ExtraTokens(p, c).ok THEN Raised(ExtraTokens(p, c).err)
    ELSE LET cmd == Flatten(TokenGroups(p, c))
         IN  [called |-> TRUE, ok |-> TRUE, err |-> "", cmd |-> cmd,
              pretty |-> Pretty(p, cmd)]

(***************************************************************************)
(* The form and sync_cfg                                                   *)
(*                                                                         *)
(* A numeric entry holds <<n>> when its text is the number n, and <<>>     *)
(* when its text is no number: IntVar.get and DoubleVar.get then raise.    *)
(***************************************************************************)
_apply_cfg_to_ui(c) ==
    [c4d_cmd_var        |-> c.c4d_cmd,
     scene_var          |-> c.scene_path,
     outdir_var         |-> c.output_dir,
     base_var           |-> c.base_name,
     override_fmt_var   |-> c.override_format,
     format_var         |-> c.format,
     override_res_var   |-> c.override_res,
     res_w_var          |-> <<c.res_w>>,
     res_h_var          |-> <<c.res_h>>,
     use_duration_var   |-> c.use_duration,
     duration_var       |-> <<c.duration_seconds>>,
     fps_var            |-> <<IF c.fps # 0 THEN c.fps ELSE DEFAULT_FPS>>,
     start_var          |-> <<c.start_frame>>,
     end_var            |-> <<c.end_frame>>,
     force_renderer_var |-> c.force_renderer,
     renderer_var       |-> c.renderer,
     threads_var        |-> <<c.threads>>,
     extra_args_var     |-> c.extra_args]

\* The fields in the order sync_cfg assigns them
SyncOrder ==
    <<"c4d_cmd", "scene_path", "output_dir", "base_name", "override_format",
      "format", "override_res", "res_w", "res_h", "use_duration",
      "duration_seconds", "fps", "start_frame", "end_frame", "force_renderer",
      "renderer", "threads", "extra_args">>

\* The fields read from a numeric entry, and the entry of each
NumericEntry(u) ==
    [res_w |-> u.res_w_var, res_h |-> u.res_h_var,
     duration_seconds |-> u.duration_var, fps |-> u.fps_var,
     start_frame |-> u.start_var, end_frame |-> u.end_var,
     threads |-> u.threads_var]

\* int(var.get()) / float(var.get()) of a readable entry
Number(entry) == IF entry # <<>> THEN entry[1] ELSE 0

\* The value sync_cfg assigns to each field
SyncValues(u) ==
    [c4d_cmd          |-> strip(u.c4d_cmd_var),
     scene_path       |-> strip(u.scene_var),
     output_dir       |-> strip(u.outdir_var),
     base_name        |-> IF strip(u.base_var) # <<>> THEN strip(u.base_var)
                          ELSE <<"frame_">>,
     override_format  |-> u.override_fmt_var,
     format           |-> strip(u.format_var),
     override_res     |-> u.override_res_var,
     res_w            |-> Number(u.res_w_var),
     res_h            |-> Number(u.res_h_var),
     use_duration     |-> u.use_duration_var,
     duration_seconds |-> Number(u.duration_var),
     fps              |-> IF Number(u.fps_var) # 0 THEN Number(u.fps_var)
                          ELSE DEFAULT_FPS,
     start_frame      |-> Number(u.start_var),
     end_frame        |-> Number(u.end_var),
     force_renderer   |-> u.force_renderer_var,
     renderer         |-> IF strip(u.renderer_var) # <<>> THEN strip(u.renderer_var)
                          ELSE <<"Redshift">>,
     threads          |-> Number(u.threads_var),
     extra_args       |-> u.extra_args_var]

\* sync_cfg mutates App.cfg in place, one field after the other; when reading
\* an entry raises, the fields before it are already assigned.
sync_cfg(u, c) ==
    LET entries == NumericEntry(u)
        bad == {i \in 1..Len(SyncOrder) :
                   SyncOrder[i] \in DOMAIN entries /\ entries[SyncOrder[i]] = <<>>}
        n == IF bad = {} THEN Len(SyncOrder) + 1
             ELSE CHOOSE i \in bad : \A j \in bad : i <= j
        assigned == {SyncOrder[i] : i \in 1..(n - 1)}
        values == SyncValues(u)
    IN  [raised |-> bad # {},
         cfg |-> [k \in DOMAIN c |-> IF k \in assigned THEN values[k] ELSE c[k]]]

(***************************************************************************)
(* run_command_async: the worker thread and the external process           *)
(***************************************************************************)
ExitCodes == {0, 3}

\* The i-th line the external process writes
Line(i) == "frame " \o ToString(i) \o "\n"

NotFoundLine == "ERROR: Commandline executable not found.\n"

OSErrorLine == "ERROR: [Errno 13] Permission denied\n"

\* The line on_run appends first (its ellipsis character written as three dots)
StartLine == "Starting render...\n"

\* The line on_done appends for an exit code
ResultLine(code) ==
    IF code = 0 THEN "\nRender completed successfully.\n"
    ELSE "\nRender FAILED with exit code " \o ToString(code) \o ".\n"

NoProc == [state |-> "none", written |-> <<>>, pipe |-> <<>>, code |-> 0]

\* The worker of a new run: its argument list, its position, its process,
\* the on_output calls it has made, and the number of its on_done calls
NewRun(cmd) ==
    [pc |-> "popen", cmd |-> cmd, errline |-> "", proc |-> NoProc, ret |-> 0,
     outputs |-> <<>>, done_calls |-> 0]

\* A worker whose thread function has returned: its locals and its process
\* are gone, the number of its on_done calls is kept
Returned(n) ==
    [pc |-> "returned", cmd |-> <<>>, errline |-> "", proc |-> NoProc, ret |-> 0,
     outputs |-> <<>>, done_calls |-> n]

\* on_output of App.on_run: the text is inserted at the end of the log
on_output(text) == log' = Append(log, text)

\* on_done of App.on_run: a result line, and the run control is enabled again
on_done(code) ==
    /\ log' = Append(log, ResultLine(code))
    /\ run_btn' = "normal"

\* subprocess.Popen(cmd, ...): FileNotFoundError when the first token names
\* no executable, some other exception, or a started process
WorkerPopen(r) ==
    /\ runs[r].pc = "popen"
    /\ \E outcome \in {"started", "oserror"} :
        LET found == runs[r].cmd # <<>> /\ runs[r].cmd[1] \in fs_exes
        IN  runs' = [runs EXCEPT ![r] =
                IF ~found THEN [@ EXCEPT !.pc = "except_output", !.errline = NotFoundLine]
                ELSE IF outcome = "oserror"
                    THEN [@ EXCEPT !.pc = "except_output", !.errline = OSErrorLine]
                    ELSE [@ EXCEPT !.pc = "reading", !.proc.state = "running"]]
    /\ UNCHANGED <<envVars, forms, fs_dirs, disk, ui, cfg, built, cmd_preview, log, run_btn, dialog>>

\* except ...: on_output("ERROR: ...")
WorkerErrOutput(r) ==
    /\ runs[r].pc = "except_output"
    /\ on_output(runs[r].errline)
    /\ runs' = [runs EXCEPT ![r].pc = "except_done",
                            ![r].outputs = Append(@, runs[r].errline)]
    /\ UNCHANGED <<envVars, forms, fs_dirs, disk, ui, cfg, built, cmd_preview, run_btn, dialog>>

\* Mutant: the except branch returns without calling on_done.
WorkerErrDone_skipped(r) ==
    /\ runs[r].pc = "except_done"
    /\ runs' = [runs EXCEPT ![r] = Returned(runs[r].done_calls)]
    /\ UNCHANGED <<envVars, forms, fs_dirs, disk, ui, cfg, built, cmd_preview, log, run_btn, dialog>>

\* Mutant: the except branch lacks its return and goes on to the normal exit.
WorkerErrDone_fallthrough(r) ==
    /\ runs[r].pc = "except_done"
    /\ on_done(1)
    /\ runs' = [runs EXCEPT ![r].pc = "done", ![r].ret = 1, ![r].done_calls = @ + 1]
    /\ UNCHANGED <<envVars, forms, fs_dirs, disk, ui, cfg, built, cmd_preview, dialog>>

\* Mutant: a failed launch is reported as exit code 0.
WorkerErrDone_zero(r) ==
    /\ runs[r].pc = "except_done"
    /\ on_done(0)
    /\ runs' = [runs EXCEPT ![r] = Returned(runs[r].done_calls + 1)]
    /\ UNCHANGED <<envVars, forms, fs_dirs, disk, ui, cfg, built, cmd_preview, dialog>>

\* except ...: on_done(1); return
WorkerErrDone(r) ==
    /\ runs[r].pc = "except_done"
    /\ on_done(1)
    /\ runs' = [runs EXCEPT ![r] = Returned(runs[r].done_calls + 1)]
    /\ UNCHANGED <<envVars, forms, fs_dirs, disk, ui, cfg, built, cmd_preview, dialog>>

\* Mutant: the newest buffered line is forwarded first.
WorkerReadLine_newest(r) ==
    /\ runs[r].pc = "reading"
    /\ runs[r].proc.pipe # <<>>
    /\ LET pipe == runs[r].proc.pipe
           line == pipe[Len(pipe)]
       IN  /\ on_output(line)
           /\ runs' = [runs EXCEPT ![r].proc.pipe = SubSeq(pipe, 1, Len(pipe) - 1),
                                   ![r].outputs = Append(@, line)]
    /\ UNCHANGED <<envVars, forms, fs_dirs, disk, ui, cfg, built, cmd_preview, run_btn, dialog>>

\* for line in proc.stdout: on_output(line)
WorkerReadLine(r) ==
    /\ runs[r].pc = "reading"
    /\ runs[r].proc.pipe # <<>>
    /\ LET line == Head(runs[r].proc.pipe)
       IN  /\ on_output(line)
           /\ runs' = [runs EXCEPT ![r].proc.pipe = Tail(@),
                                   ![r].outputs = Append(@, line)]
    /\ UNCHANGED <<envVars, forms, fs_dirs, disk, ui, cfg, built, cmd_preview, run_btn, dialog>>

\* The loop ends at end of file (the pipe is drained and its writer has
\* closed it), and ret = proc.wait() returns the exit code
WorkerWait(r) ==
    /\ runs[r].pc = "reading"
    /\ runs[r].proc.pipe = <<>>
    /\ runs[r].proc.state = "exited"
    /\ runs' = [runs EXCEPT ![r].pc = "done", ![r].ret = runs[r].proc.code]
    /\ UNCHANGED <<envVars, forms, fs_dirs, disk, ui, cfg, built, cmd_preview, log, run_btn, dialog>>

\* on_done(ret), and the thread function returns
WorkerDone(r) ==
    /\ runs[r].pc = "done"
    /\ on_done(runs[r].ret)
    /\ runs' = [runs EXCEPT ![r] = Returned(runs[r].done_calls + 1)]
    /\ UNCHANGED <<envVars, forms, fs_dirs, disk, ui, cfg, built, cmd_preview, dialog>>

\* The external process writes a line to its standard output or error
ProcWrite(r) ==
    /\ runs[r].proc.state = "running"
    /\ Len(runs[r].proc.written) < MaxLines
    /\ LET line == Line(Len(runs[r].proc.written) + 1)
       IN  runs' = [runs EXCEPT ![r].proc.written = Append(@, line),
                                ![r].proc.pipe = Append(@, line)]
    /\ UNCHANGED <<envVars, forms, fs_dirs, disk, ui, cfg, built, cmd_preview, log, run_btn, dialog>>

\* The external process exits, which closes its end of the pipe
ProcExit(r) ==
    /\ runs[r].proc.state = "running"
    /\ \E code \in ExitCodes :
        runs' = [runs EXCEPT ![r].proc.state = "exited", ![r].proc.code = code]
    /\ UNCHANGED <<envVars, forms, fs_dirs, disk, ui, cfg, built, cmd_preview, log, run_btn, dialog>>

\* run_command_async(cmd, on_output, on_done): a daemon thread is started
run_command_async(cmd) == runs' = Append(runs, NewRun(cmd))

(***************************************************************************)
(* App: the event handlers                                                 *)
(*                                                                         *)
(* A message box blocks its handler until the user dismisses it; no other  *)
(* handler runs meanwhile.  built holds the locals cmd, pretty of the      *)
(* handler that is blocked in a message box.                               *)
(***************************************************************************)
Exe == <<"/", "c4d">>

\* The executables that exist on the machine
InstalledExes == {Exe, WinCandidate("2024"), MacCandidate("R26")}

\* A preset written by hand: some fields only
OldPreset ==
    [scene_path |-> <<"/", "old.c4d">>, output_dir |-> <<"/", "out">>, fps |-> 24]

GoodForm ==
    [c4d_cmd_var        |-> Exe,
     scene_var          |-> <<" ", "/", "s.c4d">>,
     outdir_var         |-> <<"/", "out">>,
     base_var           |-> <<>>,
     override_fmt_var   |-> TRUE,
     format_var         |-> <<"exr">>,
     override_res_var   |-> FALSE,
     res_w_var          |-> <<1920>>,
     res_h_var          |-> <<1080>>,
     use_duration_var   |-> TRUE,
     duration_var       |-> <<2 * FloatDen>>,
     fps_var            |-> <<0>>,
     start_var          |-> <<0>>,
     end_var            |-> <<100>>,
     force_renderer_var |-> TRUE,
     renderer_var       |-> <<>>,
     threads_var        |-> <<0>>,
     extra_args_var     |-> <<>>]

\* Forms the user may type: a valid one, one without an executable, one
\* without a scene
SampleForms ==
    {GoodForm,
     [GoodForm EXCEPT !.c4d_cmd_var = <<" ">>],
     [GoodForm EXCEPT !.scene_var = <<" ">>]}

\* Forms that combine the fields build_command validates with other fields,
\* and one that makes sync_cfg raise
ValidationForms ==
    {[GoodForm EXCEPT !.c4d_cmd_var = exe, !.scene_var = scene,
                      !.outdir_var = outdir, !.use_duration_var = use_duration,
                      !.start_var = <<start>>, !.end_var = <<end>>,
                      !.override_res_var = override_res,
                      !.extra_args_var = extra] :
        exe \in {<<" ">>, Exe},
        scene \in {<<" ">>, <<"/", "s.c4d">>},
        outdir \in {<<>>, <<"/", "out">>},
        use_duration \in BOOLEAN,
        start \in {0, 5},
        end \in {3, 5},
        override_res \in BOOLEAN,
        extra \in {<<>>, <<"\"", "unbal">>}}
    \cup {[GoodForm EXCEPT !.threads_var = <<>>]}

\* The form when a handler runs: as the last handler left it, or as the user
\* has filled it in since
Typed == forms \cup {ui}

NoDialog == [handler |-> "", title |-> "", path |-> ""]

MessageBox(handler, title, path) == [handler |-> handler, title |-> title, path |-> path]

NotBuilt == [called |-> FALSE, ok |-> FALSE, err |-> "", cmd |-> <<>>, pretty |-> <<>>]

\* try: cfg = self.sync_cfg(); cmd, pretty = build_command(cfg): cmd and
\* pretty are unbound when sync_cfg raises
TryBuild(s) == IF s.raised THEN NotBuilt ELSE build_command(platform, s.cfg)

on_preview ==
    /\ dialog = NoDialog
    /\ \E typed \in Typed :
        LET s == sync_cfg(typed, cfg)
            b == TryBuild(s)
        IN  /\ ui' = typed
            /\ cfg' = s.cfg
            /\ IF b.ok THEN
                   /\ cmd_preview' = b.pretty \o <<"\n">>
                   /\ UNCHANGED <<built, dialog>>
               ELSE
                   /\ built' = b
                   /\ dialog' = MessageBox("on_preview", "Build Error", "")
                   /\ UNCHANGED cmd_preview
    /\ UNCHANGED <<envVars, forms, fs_dirs, disk, log, run_btn, runs>>

\* on_run, with the state the run control is given before the worker starts
RunHandler(btn) ==
    /\ dialog = NoDialog
    /\ run_btn = "normal"          \* a disabled button does not call its command
    /\ Len(runs) < MaxRuns
    /\ \E typed \in Typed :
        LET s == sync_cfg(typed, cfg)
            b == TryBuild(s)
        IN  /\ ui' = typed
            /\ cfg' = s.cfg
            /\ IF ~b.ok THEN
                   /\ built' = b
                   /\ dialog' = MessageBox("on_run", "Build Error", "")
                   /\ UNCHANGED <<fs_dirs, cmd_preview, log, run_btn, runs>>
               ELSE \E makedirs_ok \in BOOLEAN :
                   IF ~makedirs_ok /\ s.cfg.output_dir \notin fs_dirs THEN
                       /\ built' = b
                       /\ dialog' = MessageBox("on_run", "Output Error", "")
                       /\ UNCHANGED <<fs_dirs, cmd_preview, log, run_btn, runs>>
                   ELSE
                       /\ fs_dirs' = fs_dirs \cup {s.cfg.output_dir}
                       /\ cmd_preview' = b.pretty \o <<"\n">>
                       /\ log' = <<StartLine>>
                       /\ run_btn' = btn
                       /\ run_command_async(b.cmd)
                       /\ UNCHANGED <<built, dialog>>
    /\ UNCHANGED <<envVars, forms, disk>>

\* Mutant: the run control is left enabled while the worker runs.
on_run_enabled == RunHandler("normal")

on_run == RunHandler("disabled")

SavePaths == {"mine.c4drs.json"}

LoadPaths == {"mine.c4drs.json", "old.c4drs.json"}

NoFile == [kind |-> "absent", data |-> <<>>]

\* json.dump(d, f) and json.load(f) keep every key and value of the
\* dictionary: strings, numbers and booleans
JsonFile(d) == [kind |-> "json", data |-> d]

\* path is the file the user picks, or "" when the file dialog is cancelled
on_save_preset ==
    /\ dialog = NoDialog
    /\ \E typed \in Typed :
        LET s == sync_cfg(typed, cfg)
        IN  /\ ui' = typed
            /\ cfg' = s.cfg
            /\ IF s.raised THEN UNCHANGED <<disk, dialog>>
               ELSE \E path \in SavePaths \cup {""}, write_ok \in BOOLEAN :
                   IF path = "" THEN UNCHANGED <<disk, dialog>>
                   ELSE IF write_ok THEN
                       /\ disk' = [disk EXCEPT ![path] = JsonFile(to_dict(s.cfg))]
                       /\ dialog' = MessageBox("on_save_preset", "Preset Saved", path)
                   ELSE
                       /\ dialog' = MessageBox("on_save_preset", "Save Error", path)
                       /\ UNCHANGED disk
    /\ UNCHANGED <<envVars, forms, fs_dirs, built, cmd_preview, log, run_btn, runs>>

\* Mutant: the preset updates the current configuration in place.
LoadedConfig_inplace(d) ==
    [k \in DOMAIN cfg \cup DOMAIN d |-> IF k \in DOMAIN d THEN d[k] ELSE cfg[k]]

\* self.cfg = RenderConfig.from_dict(data)
LoadedConfig(d) == from_dict(d, platform, fs_exes)

on_load_preset ==
    /\ dialog = NoDialog
    /\ \E path \in LoadPaths \cup {""} :
        IF path = "" THEN UNCHANGED <<cfg, ui, dialog>>
        ELSE IF disk[path].kind # "json" THEN
            /\ dialog' = MessageBox("on_load_preset", "Load Error", path)
            /\ UNCHANGED <<cfg, ui>>
        ELSE
            /\ cfg' = LoadedConfig(disk[path].data)
            /\ ui' = _apply_cfg_to_ui(cfg')
            /\ dialog' = MessageBox("on_load_preset", "Preset Loaded", path)
    /\ UNCHANGED <<envVars, forms, fs_dirs, disk, built, cmd_preview, log, run_btn, runs>>

\* The user dismisses the message box, and its handler returns
Dismiss ==
    /\ dialog # NoDialog
    /\ dialog' = NoDialog
    /\ built' = NotBuilt
    /\ UNCHANGED <<envVars, forms, fs_dirs, disk, ui, cfg, cmd_preview, log, run_btn, runs>>

(***************************************************************************)
(* The application                                                         *)
(***************************************************************************)
\* App.__init__: a default RenderConfig, and widgets that show it
InitApp(platforms) ==
    /\ platform \in platforms
    /\ fs_exes = InstalledExes
    /\ fs_dirs = {}
    /\ disk = [p \in LoadPaths |-> IF p = "old.c4drs.json" THEN JsonFile(OldPreset) ELSE NoFile]
    /\ cfg = RenderConfig(platform, fs_exes)
    /\ ui = _apply_cfg_to_ui(cfg)
    /\ built = NotBuilt
    /\ cmd_preview = <<>>
    /\ log = <<>>
    /\ run_btn = "normal"
    /\ runs = <<>>
    /\ dialog = NoDialog

\* The platform decides the default executable and the quoting of the
\* preview; the worker and the handlers are followed on one platform
Init == InitApp({"linux"}) /\ forms = SampleForms

Worker(r) ==
    \/ WorkerPopen(r)
    \/ WorkerErrOutput(r)
    \/ WorkerErrDone(r)
    \/ WorkerReadLine(r)
    \/ WorkerWait(r)
    \/ WorkerDone(r)

Process(r) == ProcWrite(r) \/ ProcExit(r)

Next ==
    \/ on_preview
    \/ on_run
    \/ on_save_preset
    \/ on_load_preset
    \/ Dismiss
    \/ \E r \in 1..Len(runs) : Worker(r) \/ Process(r)

Spec == Init /\ [][Next]_vars

\* The worker thread is scheduled, and the external process terminates
FairSpec ==
    /\ Spec
    /\ \A r \in 1..MaxRuns :
        /\ WF_vars(r <= Len(runs) /\ Worker(r))
        /\ WF_vars(r <= Len(runs) /\ ProcExit(r))

\* Preview and Run on one form of ValidationForms per session
InitForms == InitApp({"win32", "linux"}) /\ \E form \in ValidationForms : forms = {form}

NextForms ==
    \/ on_preview
    \/ on_run
    \/ Dismiss
    \/ \E r \in 1..Len(runs) : Worker(r) \/ Process(r)

SpecForms == InitForms /\ [][NextForms]_vars

(***************************************************************************)
(* The Command Builder on its own: every configuration of ConfigDomain     *)
(***************************************************************************)
ExtraArgsDomain ==
    {<<>>, <<" ">>, <<"--foo", " ", "\"", "bar", " ", "baz", "\"">>, <<"\"", "unbal">>}

ConfigDomain ==
    [c4d_cmd          : {<<>>, <<"/", "c4d">>},
     scene_path       : {<<>>, <<"/", "s.c4d">>},
     output_dir       : {<<>>, <<"/", "out">>, <<"/", "out", "/">>},
     base_name        : {<<>>, <<"f_">>},
     format           : {<<>>, <<"exr">>},
     override_format  : BOOLEAN,
     override_res     : BOOLEAN,
     res_w            : {1920},
     res_h            : {1080},
     use_duration     : BOOLEAN,
     duration_seconds : {2, 3},
     fps              : {1, 25},
     start_frame      : {0, 5},
     end_frame        : {3, 5},
     renderer         : {<<>>, <<"Redshift">>},
     force_renderer   : BOOLEAN,
     threads          : {0, 4},
     extra_args       : ExtraArgsDomain]

InitBuild ==
    /\ platform \in {"win32", "linux"}
    /\ fs_exes = {}
    /\ fs_dirs = {}
    /\ disk = [p \in LoadPaths |-> NoFile]
    /\ cfg \in ConfigDomain
    /\ ui = _apply_cfg_to_ui(cfg)
    /\ built = NotBuilt
    /\ cmd_preview = <<>>
    /\ log = <<>>
    /\ run_btn = "normal"
    /\ runs = <<>>
    /\ dialog = NoDialog
    /\ forms = {}

BuildStep ==
    /\ ~built.called
    /\ built' = build_command(platform, cfg)
    /\ UNCHANGED <<envVars, cfg, appVars>>

NextBuild == BuildStep

SpecBuild == InitBuild /\ [][NextBuild]_vars

(***************************************************************************)
(* Claims about build_command (checked under SpecBuild)                    *)
(***************************************************************************)
ValidPaths(c) == c.scene_path # <<>> /\ c.output_dir # <<>>

FrameRangeError == "End frame must be >= start frame."

\* The positions of a flag in a token list
FlagPositions(cmd, flag) == {i \in 1..Len(cmd) : cmd[i] = <<flag>>}

\* The two tokens that follow the (only) -frame flag
FrameRangeOf(cmd) ==
    LET i == CHOOSE j \in FlagPositions(cmd, "-frame") : TRUE
    IN  <<cmd[i + 1], cmd[i + 2]>>

\* C5: a successful build_command returns its token groups in the fixed order
\* executable (if set), -renderer pair (if force_renderer and a renderer name),
\* -render scene, -oimage stem, -ofmt pair (if override_format and a format),
\* -ores width height (if override_res), -frame start end, -threads n (always),
\* then the extra tokens (exactly when extra_args is not blank); no flag of a
\* group occurs twice.
C5_GroupOrder ==
    built.ok =>
        LET cmd == built.cmd
            hasExe == cfg.c4d_cmd # <<>>
            hasRenderer == cfg.force_renderer /\ cfg.renderer # <<>>
            hasFormat == cfg.override_format /\ cfg.format # <<>>
            n1 == IF hasExe THEN 1 ELSE 0
            n2 == n1 + (IF hasRenderer THEN 2 ELSE 0)
            n3 == n2 + 2
            n4 == n3 + 2
            n5 == n4 + (IF hasFormat THEN 2 ELSE 0)
            n6 == n5 + (IF cfg.override_res THEN 3 ELSE 0)
            n7 == n6 + 3
            n8 == n7 + 2
            head == SubSeq(cmd, 1, n8)
        IN  /\ Len(cmd) >= n8
            /\ hasExe => cmd[1] = cfg.c4d_cmd
            /\ FlagPositions(head, "-renderer") = (IF hasRenderer THEN {n1 + 1} ELSE {})
            /\ hasRenderer => cmd[n1 + 2] = cfg.renderer
            /\ FlagPositions(head, "-render") = {n2 + 1}
            /\ cmd[n2 + 2] = cfg.scene_path
            /\ FlagPositions(head, "-oimage") = {n3 + 1}
            /\ FlagPositions(head, "-ofmt") = (IF hasFormat THEN {n4 + 1} ELSE {})
            /\ hasFormat => cmd[n4 + 2] = cfg.format
            /\ FlagPositions(head, "-ores") = (IF cfg.override_res THEN {n5 + 1} ELSE {})
            /\ cfg.override_res =>
                   <<cmd[n5 + 2], cmd[n5 + 3]>> = <<IntStr(cfg.res_w), IntStr(cfg.res_h)>>
            /\ FlagPositions(head, "-frame") = {n6 + 1}
            /\ FlagPositions(head, "-threads") = {n7 + 1}
            /\ cmd[n7 + 2] = IntStr(cfg.threads)
            /\ (Len(cmd) > n8) <=> (strip(cfg.extra_args) # <<>>)

\* C5 witness: a build with every optional group present, extra tokens included
C5_Witness ==
    /\ built.ok
    /\ cfg.c4d_cmd # <<>> /\ cfg.force_renderer /\ cfg.renderer # <<>>
    /\ cfg.override_format /\ cfg.format # <<>> /\ cfg.override_res
    /\ Len(built.cmd) = 19

\* C6: with use_duration (and a scene path and an output directory) the
\* -frame tokens are 0 and the integer nearest to duration_seconds * fps,
\* whatever start_frame and end_frame are, and the frame-range validation
\* error is never raised.
C6_DurationFrames ==
    (built.called /\ cfg.use_duration /\ ValidPaths(cfg)) =>
        /\ built.err # FrameRangeError
        /\ built.ok =>
            LET num == cfg.duration_seconds * cfg.fps
                q == num \div FloatDen
            IN  /\ Cardinality(FlagPositions(built.cmd, "-frame")) = 1
                /\ \E R \in q..(q + 1) :
                    /\ 2 * (IF FloatDen * R >= num THEN FloatDen * R - num
                            ELSE num - FloatDen * R) <= FloatDen
                    /\ FrameRangeOf(built.cmd) = <<IntStr(0), IntStr(R)>>

\* C6 witness: a duration build whose explicit range is reversed and whose
\* product duration_seconds * fps is not an integer
C6_Witness ==
    /\ built.ok /\ cfg.use_duration
    /\ cfg.end_frame < cfg.start_frame
    /\ (cfg.duration_seconds * cfg.fps) % FloatDen # 0

\* C7: with an explicit range (and a scene path and an output directory),
\* end_frame < start_frame raises the frame-range validation error, and
\* otherwise (end_frame = start_frame included) that error is not raised and
\* the -frame tokens are start_frame and end_frame.
C7_ExplicitFrames ==
    (built.called /\ ~cfg.use_duration /\ ValidPaths(cfg)) =>
        IF cfg.end_frame < cfg.start_frame
        THEN ~built.ok /\ built.err = FrameRangeError /\ built.cmd = <<>>
        ELSE /\ built.err # FrameRangeError
             /\ built.ok =>
                 /\ Cardinality(FlagPositions(built.cmd, "-frame")) = 1
                 /\ FrameRangeOf(built.cmd) =
                        <<IntStr(cfg.start_frame), IntStr(cfg.end_frame)>>

\* C7 witness: an explicit range of one frame, built successfully
C7_Witness ==
    built.ok /\ ~cfg.use_duration /\ cfg.end_frame = cfg.start_frame

(***************************************************************************)
(* Presets on their own: saving the form and loading hand-written files    *)
(***************************************************************************)
\* A form that differs from the constructor defaults in every field
AltForm ==
    [c4d_cmd_var        |-> <<" ">>,
     scene_var          |-> <<"/", "alt.c4d">>,
     outdir_var         |-> <<"/", "alt">>,
     base_var           |-> <<"f_">>,
     override_fmt_var   |-> FALSE,
     format_var         |-> <<"exr">>,
     override_res_var   |-> TRUE,
     res_w_var          |-> <<1280>>,
     res_h_var          |-> <<720>>,
     use_duration_var   |-> FALSE,
     duration_var       |-> <<3>>,
     fps_var            |-> <<30>>,
     start_var          |-> <<5>>,
     end_var            |-> <<9>>,
     force_renderer_var |-> FALSE,
     renderer_var       |-> <<"Standard">>,
     threads_var        |-> <<4>>,
     extra_args_var     |-> <<"--foo">>]

PresetForms == {GoodForm, AltForm, [AltForm EXCEPT !.end_var = <<>>]}

\* Preset files written by hand: some fields only, or a key that is no field
HandPresets == {OldPreset, [threads |-> 4, note |-> <<"draft">>]}

InitPreset ==
    /\ platform \in Platforms
    /\ fs_exes = InstalledExes
    /\ fs_dirs = {}
    /\ \E d \in HandPresets :
        disk = [p \in LoadPaths |-> IF p = "old.c4drs.json" THEN JsonFile(d) ELSE NoFile]
    /\ cfg = RenderConfig(platform, fs_exes)
    /\ ui = _apply_cfg_to_ui(cfg)
    /\ built = NotBuilt
    /\ cmd_preview = <<>>
    /\ log = <<>>
    /\ run_btn = "normal"
    /\ runs = <<>>
    /\ dialog = NoDialog
    /\ forms = PresetForms

NextPreset == on_save_preset \/ on_load_preset \/ Dismiss

SpecPreset == InitPreset /\ [][NextPreset]_vars

(***************************************************************************)
(* Claims about run_command_async and the App                              *)
(***************************************************************************)
Runs == 1..Len(runs)

ErrorLines == {NotFoundLine, OSErrorLine}

ResultLines == {ResultLine(code) : code \in ExitCodes \cup {1}}

\* The worker r makes an on_done call in this step
DoneStep(r) == runs'[r].done_calls > runs[r].done_calls

\* The worker r makes an on_output call in this step
OutputStep(r) == Len(runs'[r].outputs) > Len(runs[r].outputs)

\* C1: on_done is called exactly once per run: no worker calls it twice, a
\* worker that has not returned has not called it yet, and a worker whose
\* thread function has returned (after a missing executable, another launch
\* failure, or the exit of its process) has called it once.
C1_DoneExactlyOnce ==
    \A r \in Runs :
        /\ runs[r].done_calls <= 1
        /\ (runs[r].pc = "returned") <=> (runs[r].done_calls = 1)

\* C1 witness: one worker has returned after a failed launch and a second
\* one after its process wrote a line and exited
C1_Witness ==
    /\ Len(runs) = 2
    /\ runs[1].pc = "returned" /\ runs[2].pc = "returned"
    /\ log = <<StartLine, Line(1), ResultLine(3)>>
    /\ cfg.c4d_cmd = Exe

\* C2: the on_output calls of a run carry the lines of its process in the
\* order the process wrote them, the log view receives them in that order,
\* and on_done is the last callback of the run: it is called when every
\* written line has been forwarded, and no on_output call follows it.
C2_OrderedThenDone ==
    /\ [](\A r \in Runs :
            runs[r].proc.state # "none" =>
                /\ runs[r].outputs \o runs[r].proc.pipe = runs[r].proc.written
                /\ log = <<StartLine>> \o runs[r].outputs)
    /\ [][\A r \in Runs :
            /\ OutputStep(r) => runs[r].done_calls = 0 /\ ~DoneStep(r)
            /\ DoneStep(r) =>
                /\ runs[r].proc.state # "none" =>
                       /\ runs[r].proc.state = "exited"
                       /\ runs[r].outputs = runs[r].proc.written
                /\ runs'[r].pc = "returned"]_vars

\* C2 witness: a run forwarded both lines of its process and then completed
C2_Witness ==
    /\ runs # <<>>
    /\ runs[Len(runs)].pc = "returned"
    /\ log = <<StartLine, Line(1), Line(2), ResultLine(0)>>

\* C3: when the process cannot be launched (the first token names no
\* executable, which includes an argument list that begins with a flag
\* because the executable path is empty, or Popen fails otherwise), the worker
\* makes exactly one on_output call, with an error line, then calls
\* on_done(1) and returns; no process exists for that run, and the caller,
\* on_run, has completed normally.
C3_LaunchFailure ==
    /\ [](\A r \in Runs :
            /\ (runs[r].cmd # <<>> /\ runs[r].cmd[1] \notin fs_exes) =>
                   /\ runs[r].pc \in {"popen", "except_output", "except_done"}
                   /\ runs[r].pc # "popen" => runs[r].errline = NotFoundLine
            /\ runs[r].pc \in {"except_output", "except_done"} =>
                   /\ runs[r].proc = NoProc
                   /\ runs[r].errline \in ErrorLines
                   /\ runs[r].outputs =
                          (IF runs[r].pc = "except_done" THEN <<runs[r].errline>> ELSE <<>>)
                   /\ run_btn = "disabled" /\ dialog.handler # "on_run")
    /\ [][\A r \in Runs :
            runs[r].pc \in {"except_output", "except_done"} /\ runs'[r] # runs[r] =>
                IF runs[r].pc = "except_output"
                THEN /\ runs'[r].pc = "except_done"
                     /\ log' = <<StartLine, runs[r].errline>>
                ELSE /\ runs'[r] = Returned(1)
                     /\ log' = <<StartLine, runs[r].errline, ResultLine(1)>>]_vars

\* C3 witness: a run built with a blank executable path has been reported as
\* not found and failed with code 1
C3_Witness ==
    /\ runs # <<>>
    /\ runs[Len(runs)].pc = "returned"
    /\ cfg.c4d_cmd = <<>>
    /\ cmd_preview[1] = "-renderer"
    /\ log = <<StartLine, NotFoundLine, ResultLine(1)>>

ValidationErrors ==
    {"Scene path is required.", "Output directory is required.", FrameRangeError}

\* The configurations that C4 is about
Invalid(c) ==
    \/ c.scene_path = <<>>
    \/ c.output_dir = <<>>
    \/ ~c.use_duration /\ c.end_frame < c.start_frame

\* The message box on_run shows when sync_cfg or build_command raises
RunBuildError == MessageBox("on_run", "Build Error", "")

\* C4: for a configuration with an empty scene path, an empty output
\* directory or, with use_duration false, end_frame < start_frame,
\* build_command raises a validation error and returns no tokens; a Run on
\* such a configuration ends in the Build Error message box, starts no worker
\* and no process, and leaves the run control enabled.
C4_ValidationStopsRun ==
    /\ [](Invalid(cfg) =>
            LET b == build_command(platform, cfg)
            IN  ~b.ok /\ b.cmd = <<>> /\ b.err \in ValidationErrors)
    /\ [][/\ Len(runs') > Len(runs) => ~Invalid(cfg')
          /\ (dialog = NoDialog /\ dialog' = RunBuildError) =>
                /\ ~built'.ok /\ built'.cmd = <<>>
                /\ runs' = runs
                /\ run_btn' = "normal"
                /\ log' = log /\ fs_dirs' = fs_dirs]_vars

\* C4 witness: Run on a form with a scene but no output directory is blocked
\* in the Build Error message box
C4_Witness ==
    /\ dialog = RunBuildError
    /\ built.err = "Output directory is required."
    /\ cfg.scene_path # <<>> /\ cfg.output_dir = <<>>
    /\ run_btn = "normal"

\* C8: from_dict(to_dict(c)) equals c in every field, and a loaded preset
\* replaces the whole configuration: every field of the preset has the
\* preset's value and every other field has the constructor default, whatever
\* the configuration was before.
C8_RoundTripAndLoad ==
    /\ from_dict(to_dict(cfg), platform, fs_exes) = cfg
    /\ dialog.title = "Preset Loaded" =>
        LET d == disk[dialog.path].data
            fresh == RenderConfig(platform, fs_exes)
        IN  /\ DOMAIN cfg = DOMAIN fresh \cup DOMAIN d
            /\ \A k \in DOMAIN cfg : cfg[k] = (IF k \in DOMAIN d THEN d[k] ELSE fresh[k])
            /\ ui = _apply_cfg_to_ui(cfg)

\* C8 witness: the configuration saved before had the format exr; the preset
\* loaded after it names no format, and the format is the default one
C8_Witness ==
    /\ disk["mine.c4drs.json"].kind = "json"
    /\ disk["mine.c4drs.json"].data.format = <<"exr">>
    /\ dialog = MessageBox("on_load_preset", "Preset Loaded", "old.c4drs.json")
    /\ cfg.format = DEFAULT_FORMAT

\* The workers that have not called on_done yet
InFlight == {r \in Runs : runs[r].done_calls = 0}

\* C9: at most one worker is in flight, and the run control is disabled
\* exactly while one is: from the on_run that starts it until its on_done.
C9_OneWorkerInFlight ==
    /\ Cardinality(InFlight) <= 1
    /\ (InFlight # {}) <=> (run_btn = "disabled")

\* C9 witness: a second worker is in flight after the first one completed
C9_Witness ==
    /\ Len(runs) = 2
    /\ runs[1].done_calls = 1
    /\ runs[2].pc = "reading"
    /\ run_btn = "disabled"

\* C10: when the worker is scheduled and the process terminates, a disabled
\* run control leads to on_done: a result line at the end of the log and the
\* run control enabled again.
C10_RunControlReenabled ==
    (run_btn = "disabled") ~>
        (run_btn = "normal" /\ log # <<>> /\ log[Len(log)] \in ResultLines)

\* C10 witness: the run control is enabled again after a process that exited
\* with a non-zero code
C10_Witness ==
    /\ run_btn = "normal"
    /\ log # <<>>
    /\ log[Len(log)] = ResultLine(3)
    /\ Len(runs) = 1

====
